---------------------------- MODULE Spec2Model ----------------------------
(***************************************************************************)
(* W-2 PDF upload pipeline: validation, size-driven ingress strategy,      *)
(* regex field extraction, and the two-call relay to the third-party API.  *)
(* Text is a sequence of one-character strings; money is kept in cents.    *)
(***************************************************************************)
EXTENDS Integers, Sequences, FiniteSets, TLC

(***************************************************************************)
(* Program constants (w2pdf/views.py).                                     *)
(***************************************************************************)
MAX_MEMORY_SIZE == 2 * 1024 * 1024
CHUNK_SIZE == 64 * 1024
REQUEST_TIMEOUT == 30

(***************************************************************************)
(* Bounds of the model.                                                    *)
(***************************************************************************)
NumRequests == 2
NumTempNames == 2
NumIds == 2
SmallSize == 1024

(***************************************************************************)
(* Characters and character classes of Python's re module.                 *)
(***************************************************************************)
NL == "\n"

Digits == {"0", "1", "2", "3", "4", "5", "6", "7", "8", "9"}

UpperCase == <<"A", "B", "C", "D", "E", "F", "G", "H", "I", "J", "K", "L", "M",
               "N", "O", "P", "Q", "R", "S", "T", "U", "V", "W", "X", "Y", "Z">>

LowerCase == <<"a", "b", "c", "d", "e", "f", "g", "h", "i", "j", "k", "l", "m",
               "n", "o", "p", "q", "r", "s", "t", "u", "v", "w", "x", "y", "z">>

LowerOf == [c \in {UpperCase[i] : i \in 1..26} |->
              LowerCase[CHOOSE i \in 1..26 : UpperCase[i] = c]]

\* re.IGNORECASE: characters are compared after case folding.
Lower(c) == IF c \in DOMAIN LowerOf THEN LowerOf[c] ELSE c

\* Membership of a character in a class of the patterns: "." (anything but a
\* newline), \d, [\d,], and the single characters "$", "." and "-".
InClass(c, cls) ==
    CASE cls = "dot" -> c # NL
      [] cls = "digit" -> c \in Digits
      [] cls = "digitcomma" -> c \in Digits \cup {","}
      [] cls = "dollar" -> c = "$"
      [] cls = "period" -> c = "."

(***************************************************************************)
(* Pattern elements.  A pattern is a sequence of elements; an element is a *)
(* literal (case-insensitive), a greedy bounded repeat of a class, or a    *)
(* greedy unbounded repeat ("+").                                          *)
(***************************************************************************)
Lit(s) == [kind |-> "lit", str |-> s, cls |-> "dot", min |-> Len(s), max |-> Len(s)]
Rep(c, lo, hi) == [kind |-> "rep", str |-> <<>>, cls |-> c, min |-> lo, max |-> hi]
Plus(c) == [kind |-> "plus", str |-> <<>>, cls |-> c, min |-> 1, max |-> 1]

\* does the literal lit occur in text at position pos (1-based), ignoring case
LitAt(text, pos, lit) ==
    /\ pos + Len(lit) - 1 <= Len(text)
    /\ \A j \in 1..Len(lit) : Lower(text[pos + j - 1]) = lit[j]

RECURSIVE RunLen(_, _, _, _)
\* the number of consecutive characters of class cls from pos on, at most limit
RunLen(text, pos, cls, limit) ==
    IF limit = 0 \/ pos > Len(text) \/ ~InClass(text[pos], cls)
    THEN 0
    ELSE 1 + RunLen(text, pos + 1, cls, limit - 1)

\* the most characters a greedy repeat can take at pos
MaxRun(text, pos, e) ==
    IF e.kind = "plus"
    THEN RunLen(text, pos, e.cls, Len(text))
    ELSE RunLen(text, pos, e.cls, e.max)

RECURSIVE MatchSeq(_, _, _, _)
RECURSIVE TryCount(_, _, _, _, _)
\* The backtracking matcher: elements k.. of pat against text at pos.  The
\* result is the sequence of positions at which each element starts, followed
\* by the end of the match; <<>> when there is no match.  A repeat tries its
\* longest run first and gives characters back one at a time.
MatchSeq(text, pat, k, pos) ==
    IF k > Len(pat)
    THEN <<pos>>
    ELSE IF pat[k].kind = "lit"
         THEN IF LitAt(text, pos, pat[k].str)
              THEN LET rest == MatchSeq(text, pat, k + 1, pos + Len(pat[k].str))
                   IN  IF rest = <<>> THEN <<>> ELSE <<pos>> \o rest
              ELSE <<>>
         ELSE TryCount(text, pat, k, pos, MaxRun(text, pos, pat[k]))

TryCount(text, pat, k, pos, n) ==
    IF n < pat[k].min
    THEN <<>>
    ELSE LET rest == MatchSeq(text, pat, k + 1, pos + n)
         IN  IF rest # <<>>
             THEN <<pos>> \o rest
             ELSE TryCount(text, pat, k, pos, n - 1)


NoMatch == [found |-> FALSE, group |-> <<>>]

\* the alternatives (by index) that match text at start position i
MatchingAt(text, alts, i) ==
    {a \in 1..Len(alts) : MatchSeq(text, alts[a].pat, 1, i) # <<>>}

Min(S) == CHOOSE m \in S : \A n \in S : m <= n

\* re.search: the leftmost start position at which some alternative matches;
\* at one start position the alternatives are tried in order.  An alternative
\* is [pat, gs]: the capturing group runs from element gs to the end of the
\* pattern.  Only the first match is taken.
Search(text, alts) ==
    LET starts == {i \in 1..(Len(text) + 1) : MatchingAt(text, alts, i) # {}}
    IN  IF starts = {}
        THEN NoMatch
        ELSE LET i == Min(starts)
                 a == Min(MatchingAt(text, alts, i))
                 b == MatchSeq(text, alts[a].pat, 1, i)
             IN  [found |-> TRUE,
                  group |-> SubSeq(text, b[alts[a].gs], b[Len(b)] - 1)]

\* (?:L1|L2|...) tail, the group starting at element g of the tail
Alternatives(labels, tail, g) ==
    [i \in 1..Len(labels) |-> [pat |-> labels[i] \o tail, gs |-> Len(labels[i]) + g]]

\* .{0,20}(\d{2}-\d{7})
EinTail == <<Rep("dot", 0, 20), Rep("digit", 2, 2), Lit(<<"-">>), Rep("digit", 7, 7)>>

\* (?:EIN|Employer.{0,20}ID|Federal.{0,20}ID)
EinPattern ==
    Alternatives(<< <<Lit(<<"e", "i", "n">>)>>,
                    <<Lit(<<"e", "m", "p", "l", "o", "y", "e", "r">>), Rep("dot", 0, 20), Lit(<<"i", "d">>)>>,
                    <<Lit(<<"f", "e", "d", "e", "r", "a", "l">>), Rep("dot", 0, 20), Lit(<<"i", "d">>)>> >>,
                 EinTail, 2)

\* .{0,20}(\d{3}-\d{2}-\d{4})
SsnTail == <<Rep("dot", 0, 20), Rep("digit", 3, 3), Lit(<<"-">>), Rep("digit", 2, 2),
             Lit(<<"-">>), Rep("digit", 4, 4)>>

\* (?:SSN|Social.{0,20}Security|Employee.{0,20}SSN)
SsnPattern ==
    Alternatives(<< <<Lit(<<"s", "s", "n">>)>>,
                    <<Lit(<<"s", "o", "c", "i", "a", "l">>), Rep("dot", 0, 20), Lit(<<"s", "e", "c", "u", "r", "i", "t", "y">>)>>,
                    <<Lit(<<"e", "m", "p", "l", "o", "y", "e", "e">>), Rep("dot", 0, 20), Lit(<<"s", "s", "n">>)>> >>,
                 SsnTail, 2)

\* .{0,20}\$?([\d,]+\.?\d{0,2})
AmountTail == <<Rep("dot", 0, 20), Rep("dollar", 0, 1), Plus("digitcomma"),
                Rep("period", 0, 1), Rep("digit", 0, 2)>>

\* (?:Box.{0,5}1|Wages)
WagesPattern ==
    Alternatives(<< <<Lit(<<"b", "o", "x">>), Rep("dot", 0, 5), Lit(<<"1">>)>>,
                    <<Lit(<<"w", "a", "g", "e", "s">>)>> >>,
                 AmountTail, 3)

\* (?:Box.{0,5}2|Federal.{0,20}tax|Tax.{0,20}withheld)
TaxPattern ==
    Alternatives(<< <<Lit(<<"b", "o", "x">>), Rep("dot", 0, 5), Lit(<<"2">>)>>,
                    <<Lit(<<"f", "e", "d", "e", "r", "a", "l">>), Rep("dot", 0, 20), Lit(<<"t", "a", "x">>)>>,
                    <<Lit(<<"t", "a", "x">>), Rep("dot", 0, 20), Lit(<<"w", "i", "t", "h", "h", "e", "l", "d">>)>> >>,
                 AmountTail, 3)

(***************************************************************************)
(* float(): the amount text with its commas removed, as a number of cents. *)
(***************************************************************************)
DigitSeq == <<"0", "1", "2", "3", "4", "5", "6", "7", "8", "9">>

DigitVal(c) == (CHOOSE d \in 1..10 : DigitSeq[d] = c) - 1

RECURSIVE DigitsValue(_)
DigitsValue(ds) ==
    IF ds = <<>> THEN 0
    ELSE 10 * DigitsValue(SubSeq(ds, 1, Len(ds) - 1)) + DigitVal(ds[Len(ds)])

IsComma(c) == c = ","

\* wage_str = group.replace(',', '')
StripCommas(s) == SelectSeq(s, LAMBDA c : ~IsComma(c))

\* float(s) for s of the shape \d*\.?\d{0,2}: a ValueError when s has no
\* digit at all ("" or "."), else the value, here scaled to cents.
ParseFloat(s) ==
    LET dots == {i \in 1..Len(s) : s[i] = "."}
        p == IF dots = {} THEN Len(s) + 1 ELSE CHOOSE i \in dots : TRUE
        ip == SubSeq(s, 1, p - 1)
        fp == SubSeq(s, p + 1, Len(s))
        frac == IF Len(fp) = 1 THEN 10 * DigitsValue(fp) ELSE DigitsValue(fp)
    IN  IF Len(ip) + Len(fp) = 0
        THEN [ok |-> FALSE, cents |-> 0]
        ELSE [ok |-> TRUE, cents |-> 100 * DigitsValue(ip) + frac]

Amount(m) == ParseFloat(StripCommas(m.group))

(***************************************************************************)
(* _parse_w2_fields: four independent searches over the whole text.  A     *)
(* key is set only when its pattern matched; float() raising ends the      *)
(* function with a ValueError.                                             *)
(***************************************************************************)
_parse_w2_fields(text) ==
    LET ein_match == Search(text, EinPattern)
        ssn_match == Search(text, SsnPattern)
        wages_match == Search(text, WagesPattern)
        tax_match == Search(text, TaxPattern)
        located == {k \in {"ein", "ssn", "wages", "federal_tax_withheld"} :
                      CASE k = "ein" -> ein_match.found
                        [] k = "ssn" -> ssn_match.found
                        [] k = "wages" -> wages_match.found
                        [] k = "federal_tax_withheld" -> tax_match.found}
        raised == \/ wages_match.found /\ ~Amount(wages_match).ok
                  \/ tax_match.found /\ ~Amount(tax_match).ok
    IN  IF raised
        THEN [raised |-> TRUE, fields |-> <<>>]
        ELSE [raised |-> FALSE,
              fields |-> [k \in located |->
                            CASE k = "ein" -> ein_match.group
                              [] k = "ssn" -> ssn_match.group
                              [] k = "wages" -> Amount(wages_match).cents
                              [] k = "federal_tax_withheld" -> Amount(tax_match).cents]]

RECURSIVE _extract_text_from_reader(_)
\* the text of every page, each followed by a newline
_extract_text_from_reader(pages) ==
    IF pages = <<>> THEN <<>>
    ELSE Head(pages) \o <<NL>> \o _extract_text_from_reader(Tail(pages))

required_fields == <<"ein", "ssn", "wages", "federal_tax_withheld">>

\* extract_w2_fields on the outcome of opening and reading the document:
\* read.ok is FALSE when open() or PdfReader raised.  The result is the four
\* fields, the ValueError naming the missing keys, or the generic
\* "Failed to process PDF" Exception that wraps every other failure.
extract_w2_fields(read) ==
    IF ~read.ok
    THEN [kind |-> "Exception", fields |-> <<>>, missing |-> <<>>]
    ELSE LET parsed == _parse_w2_fields(_extract_text_from_reader(read.pages))
             missing_fields == SelectSeq(required_fields,
                                         LAMBDA f : f \notin DOMAIN parsed.fields)
         IN  IF parsed.raised
             THEN [kind |-> "Exception", fields |-> <<>>, missing |-> <<>>]
             ELSE IF missing_fields # <<>>
                  THEN [kind |-> "ValueError", fields |-> <<>>, missing |-> missing_fields]
                  ELSE [kind |-> "ok", fields |-> parsed.fields, missing |-> <<>>]


(***************************************************************************)
(* The uploads the requests are run on.  A document is built from one      *)
(* option per field (option 1: the field is absent), laid out on one line  *)
(* or one part per page.  `present' and `value' say what the document      *)
(* holds by construction: the value that follows the label, amounts in     *)
(* cents.                                                                  *)
(***************************************************************************)
Absent == [text |-> <<>>, present |-> FALSE, value |-> <<>>]

\* the last option has a second value of the same shape after the first
EinOptions ==
    << Absent,
       [text |-> <<"E", "I", "N", " ", "1", "2", "-", "3", "4", "5", "6", "7", "8", "9">>, present |-> TRUE, value |-> <<"1", "2", "-", "3", "4", "5", "6", "7", "8", "9">>],
       [text |-> <<"E", "I", "N", " ", "1", "2", "-", "3", "4", "5", "6", "7", "8", "9", " ", "9", "8", "-", "7", "6", "5", "4", "3", "2", "1">>, present |-> TRUE, value |-> <<"1", "2", "-", "3", "4", "5", "6", "7", "8", "9">>] >>

SsnOptions ==
    << Absent,
       [text |-> <<"S", "S", "N", " ", "1", "2", "3", "-", "4", "5", "-", "6", "7", "8", "9">>, present |-> TRUE, value |-> <<"1", "2", "3", "-", "4", "5", "-", "6", "7", "8", "9">>] >>

\* the last option is the label of box 1 of the form, whose amount lies
\* beyond the 20 characters the pattern allows after the label
WagesOptions ==
    << Absent,
       [text |-> <<"B", "o", "x", " ", "1", " ", "$", "5", "0", ",", "0", "0", "0", ".", "0", "0">>, present |-> TRUE, value |-> 5000000],
       [text |-> <<"B", "o", "x", " ", "1", " ", "7">>, present |-> TRUE, value |-> 700],
       [text |-> <<"W", "a", "g", "e", "s", ",", " ", "t", "i", "p", "s", ",", " ", "o", "t", "h", "e", "r", " ", "c", "o", "m", "p", "e", "n", "s", "a", "t", "i", "o", "n", " ", "5", "0", ",", "0", "0", "0", ".", "0", "0">>,
        present |-> FALSE, value |-> <<>>] >>

TaxOptions ==
    << Absent,
       [text |-> <<"B", "o", "x", " ", "2", " ", "$", "5", ",", "0", "0", "0", ".", "0", "0">>, present |-> TRUE, value |-> 500000] >>

Separator == <<" ", ".", ".", ".", " ">>

Options(u) == <<EinOptions[u.ein], SsnOptions[u.ssn], WagesOptions[u.wages], TaxOptions[u.tax]>>

RECURSIVE Join(_)
Join(parts) ==
    IF Len(parts) = 0 THEN <<>>
    ELSE IF Len(parts) = 1 THEN parts[1]
    ELSE parts[1] \o Separator \o Join(Tail(parts))

\* the page texts PyPDF2 yields for the upload u
DocPages(u) ==
    LET parts == SelectSeq([i \in 1..4 |-> Options(u)[i].text], LAMBDA t : t # <<>>)
    IN  IF u.paged THEN parts ELSE <<Join(parts)>>

FieldKeys == {"ein", "ssn", "wages", "federal_tax_withheld"}

KeyIndex(k) == CHOOSE i \in 1..4 : required_fields[i] = k

\* what the document holds: the keys whose labelled value is there, and the values
PresentKeys(u) == {k \in FieldKeys : Options(u)[KeyIndex(k)].present}

ExpectedFields(u) == [k \in PresentKeys(u) |-> Options(u)[KeyIndex(k)].value]

PdfName == <<"W", "2", ".", "P", "D", "F">>
TxtName == <<"w", "2", ".", "t", "x", "t">>

\* the sizes above the ceiling: one that ends in a partial chunk and one that
\* is a whole number of chunks
Sizes == {0, SmallSize, MAX_MEMORY_SIZE, MAX_MEMORY_SIZE + 1, MAX_MEMORY_SIZE + CHUNK_SIZE}

\* content_type: a media type, None, or no such attribute on the file object
ContentTypes == {"application/pdf", "text/plain", "None", "no attribute"}

\* an unreadable document has no page text to vary
Uploads ==
  {u \in
    [serializer_valid : BOOLEAN,
     name : {PdfName, TxtName},
     content_type : ContentTypes,
     size : Sizes,
     readable : BOOLEAN,
     paged : BOOLEAN,
     ein : 1..Len(EinOptions),
     ssn : 1..Len(SsnOptions),
     wages : 1..Len(WagesOptions),
     tax : 1..Len(TaxOptions)] :
    ~u.readable => (u.ein = 1 /\ u.ssn = 1 /\ u.wages = 1 /\ u.tax = 1 /\ ~u.paged)}


(***************************************************************************)
(* State.  Every variable but fs is a function of the request.             *)
(***************************************************************************)
VARIABLES
    upload,          \* the uploaded file of the request (fixed)
    pc,              \* where the request's handler is
    pos,             \* position of the uploaded file's stream
    fileReads,       \* how many reads of the uploaded stream were made
    fs,              \* temporary directory: name -> NoFile or the file's content
    temp_file,       \* _save_file_in_chunks: the NamedTemporaryFile, or None
    temp_file_path,  \* _extract_pdf_fields: temp_file_path, or None
    created,         \* how many temporary files the request created
    unlinks,         \* how many os.unlink calls of the request succeeded
    unlinkFailures,  \* how many os.unlink calls of the request raised
    result,          \* outcome of extract_w2_fields, or NoResult
    fields,          \* post: fields
    calls,           \* the calls issued to the third-party API, in order
    issued,          \* the identifiers the third-party API returned
    data_id,         \* _process_third_party_integration: data_id
    file_id,         \* _process_third_party_integration: file_id
    response,        \* the Response returned by post, or NoResponse
    strategy,        \* the strategy _extract_pdf_fields chose, or None
    outcomes         \* what the third-party API answered to each call, in order

vars == <<upload, pc, pos, fileReads, fs, temp_file, temp_file_path, created, unlinks,
          unlinkFailures, result, fields, calls, issued, data_id, file_id, response,
          strategy, outcomes>>

Requests == 1..NumRequests
TempNames == 1..NumTempNames
Ids == 1..NumIds

None == "None"
\* None where a temporary file name or an identifier is expected
NoPath == 0
NoId == 0
NoResult == [kind |-> None, fields |-> <<>>, missing |-> <<>>]
NoFile == [exists |-> FALSE, src |-> 0, lo |-> 0, hi |-> 0]

\* a request that never arrives has this upload
NoUpload == [serializer_valid |-> FALSE, name |-> TxtName, content_type |-> "None",
             size |-> 0, readable |-> FALSE, paged |-> FALSE,
             ein |-> 1, ssn |-> 1, wages |-> 1, tax |-> 1]

(***************************************************************************)
(* Responses.                                                              *)
(***************************************************************************)
ErrorResponse(code, message, detail) ==
    [status |-> code, error |-> message, detail |-> detail,
     extracted_fields |-> <<>>, data_id |-> NoId, file_id |-> NoId]

\* no Response has been returned yet
NoResponse == ErrorResponse(0, None, None)

SuccessResponse(f, d, i) ==
    [status |-> 200, error |-> None, detail |-> None,
     extracted_fields |-> f, data_id |-> d, file_id |-> i]

Init ==
    /\ \E u \in Uploads : upload = [r \in Requests |-> IF r = 1 THEN u ELSE NoUpload]
    /\ pc = [r \in Requests |-> IF r = 1 THEN "received" ELSE "idle"]
    /\ pos \in [Requests -> {0}]
    /\ fileReads = [r \in Requests |-> 0]
    /\ fs = [n \in TempNames |-> NoFile]
    /\ temp_file = [r \in Requests |-> NoPath]
    /\ temp_file_path = [r \in Requests |-> NoPath]
    /\ created = [r \in Requests |-> 0]
    /\ unlinks = [r \in Requests |-> 0]
    /\ unlinkFailures = [r \in Requests |-> 0]
    /\ result = [r \in Requests |-> NoResult]
    /\ fields = [r \in Requests |-> <<>>]
    /\ calls = [r \in Requests |-> <<>>]
    /\ issued = [r \in Requests |-> {}]
    /\ data_id = [r \in Requests |-> NoId]
    /\ file_id = [r \in Requests |-> NoId]
    /\ response = [r \in Requests |-> NoResponse]
    /\ strategy = [r \in Requests |-> None]
    /\ outcomes = [r \in Requests |-> <<>>]

(***************************************************************************)
(* Validation.                                                             *)
(***************************************************************************)
\* pdf_file.name.lower().endswith('.pdf')
EndsWithPdf(name) ==
    /\ Len(name) >= 4
    /\ [i \in 1..4 |-> Lower(name[Len(name) - 4 + i])] = <<".", "p", "d", "f">>

\* _validate_pdf_file without the check of the extension
_validate_pdf_file_no_extension(pdf_file) ==
    IF pdf_file.content_type # "no attribute" /\ pdf_file.content_type # "application/pdf"
    THEN "Content type must be application/pdf"
    ELSE IF pdf_file.size = 0
         THEN "Uploaded file is empty."
         ELSE None

\* _validate_pdf_file: the error of the first check that fails, or None
_validate_pdf_file(pdf_file) ==
    IF ~EndsWithPdf(pdf_file.name)
    THEN "File extension must be .pdf"
    ELSE IF pdf_file.content_type # "no attribute" /\ pdf_file.content_type # "application/pdf"
         THEN "Content type must be application/pdf"
         ELSE IF pdf_file.size = 0
              THEN "Uploaded file is empty."
              ELSE None

\* post, step 1: the serializer, then _validate_pdf_file
Validate(r) ==
    /\ pc[r] = "received"
    /\ IF ~upload[r].serializer_valid
       THEN /\ response' = [response EXCEPT ![r] = ErrorResponse(400, "serializer.errors", None)]
            /\ pc' = [pc EXCEPT ![r] = "done"]
       ELSE LET validation_error == _validate_pdf_file(upload[r])
            IN  IF validation_error # None
                THEN /\ response' = [response EXCEPT ![r] = ErrorResponse(400, validation_error, None)]
                     /\ pc' = [pc EXCEPT ![r] = "done"]
                ELSE /\ pc' = [pc EXCEPT ![r] = "validated"]
                     /\ UNCHANGED response
    /\ UNCHANGED <<upload, pos, fileReads, fs, temp_file, temp_file_path, created, unlinks,
                   unlinkFailures, result, fields, calls, issued, data_id, file_id,
                   strategy, outcomes>>

(***************************************************************************)
(* Ingress strategy and the chunked spill.                                 *)
(***************************************************************************)
\* the ceiling itself taken for a large file
_should_use_chunked_processing_inclusive(pdf_file) == pdf_file.size >= MAX_MEMORY_SIZE

_should_use_chunked_processing(pdf_file) == pdf_file.size > MAX_MEMORY_SIZE

\* a temporary file created under whatever name, taken or not
FreshName_any(files, n) == TRUE

\* tempfile.NamedTemporaryFile creates its file under a name no existing
\* file has
FreshName(files, n) == ~files[n].exists

\* _extract_pdf_fields up to its first await: the strategy; for the chunked
\* one, _save_file_in_chunks creates the temporary file under a name no
\* existing file has and rewinds the upload.
BeginExtraction(r) ==
    /\ pc[r] = "validated"
    /\ IF _should_use_chunked_processing(upload[r])
       THEN \E n \in TempNames :
              /\ FreshName(fs, n)
              /\ fs' = [fs EXCEPT ![n] = [exists |-> TRUE, src |-> r, lo |-> 0, hi |-> 0]]
              /\ temp_file' = [temp_file EXCEPT ![r] = n]
              /\ created' = [created EXCEPT ![r] = @ + 1]
              /\ pos' = [pos EXCEPT ![r] = 0]
              /\ strategy' = [strategy EXCEPT ![r] = "spilled"]
              /\ pc' = [pc EXCEPT ![r] = "spill"]
       ELSE /\ strategy' = [strategy EXCEPT ![r] = "in_memory"]
            /\ pc' = [pc EXCEPT ![r] = "extract"]
            /\ UNCHANGED <<fs, temp_file, created, pos>>
    /\ UNCHANGED <<upload, fileReads, temp_file_path, unlinks, unlinkFailures, result, fields,
                   calls, issued, data_id, file_id, response,
                   outcomes>>

\* a read that returns nothing when less than a full chunk is left
ChunkLen_full_only(r) ==
    IF upload[r].size - pos[r] < CHUNK_SIZE THEN 0 ELSE CHUNK_SIZE

\* pdf_file.read(CHUNK_SIZE): how many bytes the next read returns
ChunkLen(r) ==
    IF upload[r].size - pos[r] < CHUNK_SIZE THEN upload[r].size - pos[r] ELSE CHUNK_SIZE

\* one turn of the loop of _save_file_in_chunks: a chunk is read and
\* appended, or the empty chunk ends the loop and the path is returned
SpillChunk(r) ==
    /\ pc[r] = "spill"
    /\ fileReads' = [fileReads EXCEPT ![r] = @ + 1]
    /\ IF ChunkLen(r) = 0
       THEN /\ temp_file_path' = [temp_file_path EXCEPT ![r] = temp_file[r]]
            /\ pc' = [pc EXCEPT ![r] = "extract"]
            /\ UNCHANGED <<fs, pos>>
       ELSE /\ fs' = [fs EXCEPT ![temp_file[r]].hi = @ + ChunkLen(r)]
            /\ pos' = [pos EXCEPT ![r] = @ + ChunkLen(r)]
            /\ UNCHANGED <<temp_file_path, pc>>
    /\ UNCHANGED <<upload, temp_file, created, unlinks, unlinkFailures, result, fields,
                   calls, issued, data_id, file_id, response,
                   strategy, outcomes>>


\* an os.unlink that returns without removing anything
Unlinked_nothing(files, path) == files

\* os.unlink(path) on the directory files
Unlinked(files, path) == [files EXCEPT ![path] = NoFile]

\* the except branch of _save_file_in_chunks: the file is closed and, if it
\* exists, unlinked; unlink_ok is whether os.unlink succeeds.  A failing
\* unlink raises out of the handler and the file stays.
SpillCleanup(files, name, unlink_ok) ==
    IF files[name].exists
    THEN IF unlink_ok
         THEN [fs |-> Unlinked(files, name), removed |-> 1, failed |-> 0]
         ELSE [fs |-> files, removed |-> 0, failed |-> 1]
    ELSE [fs |-> files, removed |-> 0, failed |-> 0]

\* _cleanup_temp_file with the unlink left out
_cleanup_temp_file_noop(files, temp_path, unlink_ok) ==
    [fs |-> files, removed |-> 0, failed |-> 0]

\* _cleanup_temp_file: the path is unlinked if it is set and exists; a
\* failing unlink is logged and swallowed, and the file stays.
_cleanup_temp_file(files, temp_path, unlink_ok) ==
    IF temp_path # NoPath /\ files[temp_path].exists
    THEN IF unlink_ok
         THEN [fs |-> Unlinked(files, temp_path), removed |-> 1, failed |-> 0]
         ELSE [fs |-> files, removed |-> 0, failed |-> 1]
    ELSE [fs |-> files, removed |-> 0, failed |-> 0]

\* A read of the upload or a write of the temporary file raises inside
\* _save_file_in_chunks.  Its handler cleans up and re-raises; the finally
\* of _extract_pdf_fields runs _cleanup_temp_file on a path that was never
\* assigned; post answers 422.
SpillFail(r) ==
    /\ pc[r] = "spill"
    /\ \E unlink_ok \in BOOLEAN :
         LET h == SpillCleanup(fs, temp_file[r], unlink_ok)
             c == _cleanup_temp_file(h.fs, temp_file_path[r], unlink_ok)
         IN  /\ fs' = c.fs
             /\ unlinks' = [unlinks EXCEPT ![r] = @ + h.removed + c.removed]
             /\ unlinkFailures' = [unlinkFailures EXCEPT ![r] = @ + h.failed + c.failed]
             /\ response' = [response EXCEPT ![r] =
                               ErrorResponse(422, "Failed to read PDF",
                                             IF h.failed > 0 THEN "unlink error" ELSE "I/O error")]
    /\ fileReads' = [fileReads EXCEPT ![r] = @ + 1]
    /\ pc' = [pc EXCEPT ![r] = "done"]
    /\ UNCHANGED <<upload, pos, temp_file, temp_file_path, created, result, fields,
                   calls, issued, data_id, file_id,
                   strategy, outcomes>>

(***************************************************************************)
(* Extraction.                                                             *)
(***************************************************************************)
\* open(path) and PdfReader on a temporary file: its content is bytes
\* lo..hi-1 of the upload src; the pages are read when it is the whole of a
\* readable document.
ReadFile(path) ==
    LET f == fs[path]
    IN  IF f.exists /\ f.lo = 0 /\ f.hi = upload[f.src].size /\ upload[f.src].readable
        THEN [ok |-> TRUE, pages |-> DocPages(upload[f.src])]
        ELSE [ok |-> FALSE, pages |-> <<>>]

\* pdf_input.seek(0) and PdfReader on the uploaded stream
ReadStream(r) ==
    IF upload[r].readable
    THEN [ok |-> TRUE, pages |-> DocPages(upload[r])]
    ELSE [ok |-> FALSE, pages |-> <<>>]

\* asyncio.to_thread(extract_w2_fields, ...): from the temporary file when
\* one was written, else from the stream, which the reader leaves at some
\* position.
Extract(r) ==
    /\ pc[r] = "extract"
    /\ IF temp_file_path[r] # NoPath
       THEN /\ result' = [result EXCEPT ![r] = extract_w2_fields(ReadFile(temp_file_path[r]))]
            /\ UNCHANGED <<pos, fileReads>>
       ELSE /\ result' = [result EXCEPT ![r] = extract_w2_fields(ReadStream(r))]
            /\ \E p \in {0, upload[r].size} : pos' = [pos EXCEPT ![r] = p]
            /\ fileReads' = [fileReads EXCEPT ![r] = @ + 1]
    /\ pc' = [pc EXCEPT ![r] = "extracted"]
    /\ UNCHANGED <<upload, fs, temp_file, temp_file_path, created, unlinks, unlinkFailures,
                   fields, calls, issued, data_id, file_id, response,
                   strategy, outcomes>>

\* _upload_file_to_third_party without its seek: the file is sent from
\* wherever the stream was left
UploadStart_noseek(r) == pos[r]

\* pdf_file.seek(0) in _upload_file_to_third_party: the position the file
\* is sent from
UploadStart(r) == 0

\* a call to the third-party API as it is issued
DataCall == [operation |-> "data reporting", has_unique_id |-> FALSE, unique_id |-> NoId,
             lo |-> 0, hi |-> 0, timeout |-> REQUEST_TIMEOUT]

\* data = {'unique_id': data_id} if data_id else {}; the file is sent from
\* the position the stream is at
FileCall(id, from, size) ==
    [operation |-> "file upload", has_unique_id |-> id # NoId, unique_id |-> id,
     lo |-> from, hi |-> size, timeout |-> REQUEST_TIMEOUT]

\* The worker thread is back: the finally of _extract_pdf_fields cleans up,
\* then post either answers 422 (ValueError: missing fields; any other
\* exception: unreadable) or goes on to issue the data-reporting call.
FinishExtraction(r) ==
    /\ pc[r] = "extracted"
    /\ \E unlink_ok \in BOOLEAN :
         LET c == _cleanup_temp_file(fs, temp_file_path[r], unlink_ok)
         IN  /\ fs' = c.fs
             /\ unlinks' = [unlinks EXCEPT ![r] = @ + c.removed]
             /\ unlinkFailures' = [unlinkFailures EXCEPT ![r] = @ + c.failed]
    /\ CASE result[r].kind = "ValueError" ->
              /\ response' = [response EXCEPT ![r] =
                                ErrorResponse(422, "PDF parsing error", "Missing required fields in PDF")]
              /\ pc' = [pc EXCEPT ![r] = "done"]
              /\ UNCHANGED <<fields, calls>>
         [] result[r].kind = "Exception" ->
              /\ response' = [response EXCEPT ![r] =
                                ErrorResponse(422, "Failed to read PDF", "Failed to process PDF")]
              /\ pc' = [pc EXCEPT ![r] = "done"]
              /\ UNCHANGED <<fields, calls>>
         [] result[r].kind = "ok" ->
              /\ fields' = [fields EXCEPT ![r] = result[r].fields]
              /\ calls' = [calls EXCEPT ![r] = Append(@, DataCall)]
              /\ pc' = [pc EXCEPT ![r] = "call1"]
              /\ UNCHANGED response
    /\ UNCHANGED <<upload, pos, fileReads, temp_file, temp_file_path, created, result,
                   issued, data_id, file_id,
                   strategy, outcomes>>


(***************************************************************************)
(* The relay.                                                              *)
(***************************************************************************)
Statuses == {200, 201, 400, 401, 404, 500, 503}

\* What the third-party API (or the network) does with a call: a transport
\* exception, or a status; a 200 carries a body that is JSON or not, with or
\* without an identifier.
ExternalOutcomes ==
    {[exc |-> e, status |-> 0, json |-> FALSE, id |-> NoId] :
        e \in {"ConnectError", "TimeoutException", "RequestError"}}
    \cup {[exc |-> None, status |-> st, json |-> FALSE, id |-> NoId] : st \in Statuses}
    \cup {[exc |-> None, status |-> 200, json |-> TRUE, id |-> i] : i \in {NoId} \cup Ids}

\* results of the relay functions: a value (identifier or None), an error
\* Response, or a raised exception
Value(id) == [kind |-> "value", id |-> id, exc |-> None, error |-> None]
ErrorResult(message) == [kind |-> "Response", id |-> NoId, exc |-> None, error |-> message]
Raised(exc, message) == [kind |-> "raise", id |-> NoId, exc |-> exc, error |-> message]

\* _handle_third_party_response without the 401 branch
_handle_third_party_response_no401(status_code) ==
    IF status_code = 400
    THEN ErrorResult("Third-party API rejected")
    ELSE IF status_code >= 500
         THEN ErrorResult("Third-party API server error")
         ELSE IF status_code # 200
              THEN Raised("Exception", "Third-party API error")
              ELSE Value(NoId)

\* _handle_third_party_response: None for 200, a 502 Response for 401, 400
\* and >= 500, an Exception for any other status
_handle_third_party_response(status_code) ==
    IF status_code = 401
    THEN ErrorResult("Authentication failed with third-party API")
    ELSE IF status_code = 400
         THEN ErrorResult("Third-party API rejected")
         ELSE IF status_code >= 500
              THEN ErrorResult("Third-party API server error")
              ELSE IF status_code # 200
                   THEN Raised("Exception", "Third-party API error")
                   ELSE Value(NoId)

\* client.post, _handle_third_party_response, then response.json().get(key):
\* the body of both _report_data_to_third_party and
\* _upload_file_to_third_party
Submit(o) ==
    IF o.exc # None
    THEN Raised(o.exc, o.exc)
    ELSE LET error_response == _handle_third_party_response(o.status)
         IN  IF error_response.kind # "value"
             THEN error_response
             ELSE IF ~o.json
                  THEN Raised("Exception", "JSONDecodeError")
                  ELSE Value(o.id)

\* _report_data_to_third_party swallowing what the call raises
_report_data_to_third_party_swallow(o) ==
    IF Submit(o).kind = "raise" THEN Value(NoId) ELSE Submit(o)

_report_data_to_third_party(o) == Submit(o)

_upload_file_to_third_party(o) == Submit(o)

\* _process_third_party_integration without its isinstance checks: whatever
\* the relay function returned is taken for an identifier
IsErrorResponse_unchecked(x) == FALSE

\* isinstance(x, Response) in _process_third_party_integration
IsErrorResponse(x) == x.kind = "Response"

\* post answering every failure of the third-party calls with a plain 500
GatewayResponse_internal(operation, raised) ==
    ErrorResponse(500, raised.error, operation)

\* the except clauses of post around the third-party calls
GatewayResponse(operation, raised) ==
    CASE raised.exc = "ConnectError" ->
           ErrorResponse(502, "Unable to connect to third-party API.", operation)
      [] raised.exc = "TimeoutException" ->
           ErrorResponse(504, "Timeout contacting third-party API.", operation)
      [] raised.exc = "RequestError" ->
           ErrorResponse(502, "Network error contacting third-party API", operation)
      [] OTHER -> ErrorResponse(502, raised.error, operation)

\* the identifier a 200 response carried, recorded as issued by the API
Issue(r, operation, o) ==
    IF o.exc = None /\ o.status = 200 /\ o.json /\ o.id # NoId
    THEN [issued EXCEPT ![r] = @ \cup {[operation |-> operation, id |-> o.id]}]
    ELSE issued

\* The data-reporting call returns.  _process_third_party_integration
\* raises on a failure, which post turns into a gateway response; otherwise
\* the upload is rewound and the file-upload call is issued with data_id.
Call1Response(r) ==
    /\ pc[r] = "call1"
    /\ \E o \in ExternalOutcomes :
         LET reported == _report_data_to_third_party(o)
         IN  /\ issued' = Issue(r, "data reporting", o)
             /\ outcomes' = [outcomes EXCEPT ![r] = Append(@, o)]
             /\ IF reported.kind = "raise"
                THEN /\ response' = [response EXCEPT ![r] =
                                       GatewayResponse("data reporting", reported)]
                     /\ pc' = [pc EXCEPT ![r] = "done"]
                     /\ UNCHANGED <<data_id, pos, fileReads, calls>>
                ELSE IF IsErrorResponse(reported)
                     THEN /\ response' = [response EXCEPT ![r] =
                                            GatewayResponse("data reporting",
                                                Raised("Exception", reported.error))]
                          /\ pc' = [pc EXCEPT ![r] = "done"]
                          /\ UNCHANGED <<data_id, pos, fileReads, calls>>
                     ELSE /\ data_id' = [data_id EXCEPT ![r] = reported.id]
                          /\ calls' = [calls EXCEPT ![r] =
                                         Append(@, FileCall(reported.id, UploadStart(r), upload[r].size))]
                          /\ pos' = [pos EXCEPT ![r] = upload[r].size]
                          /\ fileReads' = [fileReads EXCEPT ![r] = @ + 1]
                          /\ pc' = [pc EXCEPT ![r] = "call2"]
                          /\ UNCHANGED response
    /\ UNCHANGED <<upload, fs, temp_file, temp_file_path, created, unlinks, unlinkFailures,
                   result, fields, file_id,
                   strategy>>

\* The file-upload call returns: a gateway response on a failure, else the
\* 200 response with the fields and both identifiers.
Call2Response(r) ==
    /\ pc[r] = "call2"
    /\ \E o \in ExternalOutcomes :
         LET uploaded == _upload_file_to_third_party(o)
         IN  /\ issued' = Issue(r, "file upload", o)
             /\ outcomes' = [outcomes EXCEPT ![r] = Append(@, o)]
             /\ IF uploaded.kind = "raise"
                THEN /\ response' = [response EXCEPT ![r] =
                                       GatewayResponse("file upload", uploaded)]
                     /\ UNCHANGED file_id
                ELSE IF IsErrorResponse(uploaded)
                     THEN /\ response' = [response EXCEPT ![r] =
                                            GatewayResponse("file upload",
                                                Raised("Exception", uploaded.error))]
                          /\ UNCHANGED file_id
                     ELSE /\ file_id' = [file_id EXCEPT ![r] = uploaded.id]
                          /\ response' = [response EXCEPT ![r] =
                                            SuccessResponse(fields[r], data_id[r], uploaded.id)]
    /\ pc' = [pc EXCEPT ![r] = "done"]
    /\ UNCHANGED <<upload, pos, fileReads, fs, temp_file, temp_file_path, created, unlinks,
                   unlinkFailures, result, fields, calls, data_id,
                   strategy>>

Next ==
    \E r \in Requests :
        \/ Validate(r)
        \/ BeginExtraction(r)
        \/ SpillChunk(r)
        \/ SpillFail(r)
        \/ Extract(r)
        \/ FinishExtraction(r)
        \/ Call1Response(r)
        \/ Call2Response(r)

Spec == Init /\ [][Next]_vars

(***************************************************************************)
(* Two requests in flight together, each handled by its own task on the    *)
(* event loop: both uploads are above the ceiling and are spilled, the     *)
(* first holds the four fields and the second lacks the EIN.               *)
(***************************************************************************)
Concurrent == {1, 2}

ConcurrentUpload(r) ==
    [serializer_valid |-> TRUE, name |-> PdfName, content_type |-> "application/pdf",
     size |-> MAX_MEMORY_SIZE + 1, readable |-> TRUE, paged |-> TRUE,
     ein |-> IF r = 1 THEN 2 ELSE 1, ssn |-> 2, wages |-> 3, tax |-> 2]

InitConcurrent ==
    /\ upload = [r \in Requests |-> IF r \in Concurrent THEN ConcurrentUpload(r) ELSE NoUpload]
    /\ pc = [r \in Requests |-> IF r \in Concurrent THEN "received" ELSE "idle"]
    /\ pos = [r \in Requests |-> 0]
    /\ fileReads = [r \in Requests |-> 0]
    /\ fs = [n \in TempNames |-> NoFile]
    /\ temp_file = [r \in Requests |-> NoPath]
    /\ temp_file_path = [r \in Requests |-> NoPath]
    /\ created = [r \in Requests |-> 0]
    /\ unlinks = [r \in Requests |-> 0]
    /\ unlinkFailures = [r \in Requests |-> 0]
    /\ result = [r \in Requests |-> NoResult]
    /\ fields = [r \in Requests |-> <<>>]
    /\ calls = [r \in Requests |-> <<>>]
    /\ issued = [r \in Requests |-> {}]
    /\ data_id = [r \in Requests |-> NoId]
    /\ file_id = [r \in Requests |-> NoId]
    /\ response = [r \in Requests |-> NoResponse]
    /\ strategy = [r \in Requests |-> None]
    /\ outcomes = [r \in Requests |-> <<>>]

SpecConcurrent == InitConcurrent /\ [][Next]_vars


(***************************************************************************)
(* Properties.                                                             *)
(***************************************************************************)
\* a request whose response has been returned
Returned(r) == response[r].status # 0

\* a row of the mapping table: a transport failure or a status other than 200
Failure(o) == o.exc # None \/ o.status # 200

FileCalls(r) == {i \in 1..Len(calls[r]) : calls[r][i].operation = "file upload"}

\* the temporary files written from the upload of request r that exist
TempFilesOf(r) == {n \in TempNames : fs[n].exists /\ fs[n].src = r}

\* C1: if the data-reporting call (Call 1) fails under any row of the mapping
\* table, no file-upload call (Call 2) is ever issued for that request.
C1_NoUploadAfterFailedReport ==
    \A r \in Requests :
        (Len(outcomes[r]) >= 1 /\ Failure(outcomes[r][1])) => FileCalls(r) = {}

\* C1 witness: Call 1 was answered 401 and the request has ended.
C1_Witness ==
    \E r \in Requests :
        /\ Len(outcomes[r]) = 1
        /\ outcomes[r][1].exc = None
        /\ outcomes[r][1].status = 401
        /\ pc[r] = "done"
        /\ Len(calls[r]) = 1

Parsed(r) == result[r].kind # None /\ upload[r].readable

\* the keys the missing-fields ValueError of request r names
NamedMissing(r) == {result[r].missing[i] : i \in 1..Len(result[r].missing)}

\* C3 as claimed: for every document holding all four labelled values,
\* extraction returns the four fields, ein and ssn the identifier after the
\* label and wages and federal_tax_withheld the full amount after the label.
C3_AllFourExtractedCorrectly ==
    \A r \in Requests :
        (Parsed(r) /\ PresentKeys(upload[r]) = FieldKeys) =>
            /\ result[r].kind = "ok"
            /\ \A k \in FieldKeys : result[r].fields[k] = ExpectedFields(upload[r])[k]

\* C4 as claimed: for every document missing a mandatory field, extraction
\* fails with the missing-fields ValueError naming exactly the missing keys.
C4_MissingFieldsNamedExactly ==
    \A r \in Requests :
        (Parsed(r) /\ PresentKeys(upload[r]) # FieldKeys) =>
            /\ result[r].kind = "ValueError"
            /\ NamedMissing(r) = FieldKeys \ PresentKeys(upload[r])


\* C5 as claimed: a 200 response carries both identifiers, each one the
\* third-party API issued for that call; neither is ever None.
C5_SuccessCarriesIssuedIds ==
    \A r \in Requests :
        response[r].status = 200 =>
            /\ response[r].data_id # NoId
            /\ response[r].file_id # NoId
            /\ [operation |-> "data reporting", id |-> response[r].data_id] \in issued[r]
            /\ [operation |-> "file upload", id |-> response[r].file_id] \in issued[r]

\* C6 as claimed: every file-upload call issued carries as unique_id the
\* identifier the data-reporting call of the same request returned.
C6_UploadCarriesReportId ==
    \A r \in Requests :
        \A i \in FileCalls(r) :
            /\ calls[r][i].has_unique_id
            /\ [operation |-> "data reporting", id |-> calls[r][i].unique_id] \in issued[r]

\* the outcomes of request r that are rows of the mapping table
Failures(r) == {i \in 1..Len(outcomes[r]) : Failure(outcomes[r][i])}

\* C7: a failure of either call under any row of the mapping table ends the
\* request in a 502 or 504 response that carries no fields and no identifier.
C7_RelayFailureIsGatewayError ==
    \A r \in Requests :
        Failures(r) # {} =>
            /\ pc[r] = "done"
            /\ response[r].status \in {502, 504}
            /\ DOMAIN response[r].extracted_fields = {}
            /\ response[r].data_id = NoId
            /\ response[r].file_id = NoId

\* C7 witness: Call 1 returned an identifier, Call 2 timed out, and the
\* response is a 504.
C7_Witness ==
    \E r \in Requests :
        /\ Len(outcomes[r]) = 2
        /\ data_id[r] # NoId
        /\ outcomes[r][2].exc = "TimeoutException"
        /\ response[r].status = 504

\* the classification the mapping table gives a status
Classification(st) ==
    CASE st = 401 -> "Authentication failed with third-party API"
      [] st = 400 -> "Third-party API rejected"
      [] st = 200 -> None
      [] st \in {201, 404} -> "Third-party API error"
      [] st \in {500, 503} -> "Third-party API server error"

OperationOf(i) == IF i = 1 THEN "data reporting" ELSE "file upload"

\* C8: the classification is decided by the status alone, the same for both
\* calls: a call answered with a status other than 200 ends the request in
\* a 502 whose message is the table's classification of that status for that
\* call; a 200 with a JSON body is no error: after Call 1 the file-upload call
\* is issued, after Call 2 the response is the 200.
C8_ClassificationByStatus ==
    \A r \in Requests :
        \A i \in 1..Len(outcomes[r]) :
            outcomes[r][i].exc = None =>
                IF outcomes[r][i].status # 200
                THEN /\ response[r].status = 502
                     /\ response[r].error = Classification(outcomes[r][i].status)
                     /\ response[r].detail = OperationOf(i)
                ELSE outcomes[r][i].json =>
                        IF i = 1 THEN Len(calls[r]) = 2 ELSE response[r].status = 200

\* C8 witness: Call 1 answered 401 and the caller got the 502 of the
\* authentication-rejected classification.
C8_Witness ==
    \E r \in Requests :
        /\ Len(outcomes[r]) = 1
        /\ outcomes[r][1].exc = None
        /\ outcomes[r][1].status = 401
        /\ response[r].status = 502
        /\ response[r].error = "Authentication failed with third-party API"
        /\ response[r].detail = "data reporting"

\* C9: a size up to the ceiling, the ceiling included, is processed in
\* memory and creates no temporary file; a larger size is spilled.
C9_StrategyBySize ==
    \A r \in Requests :
        strategy[r] # None =>
            IF upload[r].size <= 2 * 1024 * 1024
            THEN strategy[r] = "in_memory" /\ created[r] = 0 /\ temp_file[r] = NoPath
            ELSE strategy[r] = "spilled" /\ created[r] = 1

\* C9 witness: an upload of exactly the ceiling was extracted in memory.
C9_Witness ==
    \E r \in Requests :
        /\ upload[r].size = 2 * 1024 * 1024
        /\ strategy[r] = "in_memory"
        /\ pc[r] = "extracted"
        /\ created[r] = 0

\* the violation of the upload u and its message: a wrong extension, a
\* declared content type other than the expected one, or a size of zero
ViolationOf(u) ==
    IF u.name = TxtName
    THEN "File extension must be .pdf"
    ELSE IF u.content_type = "text/plain"
         THEN "Content type must be application/pdf"
         ELSE IF u.content_type \in {"application/pdf", "no attribute"} /\ u.size = 0
              THEN "Uploaded file is empty."
              ELSE None

\* C10: a rejected upload ends in a 400 with the message of its violation,
\* and a 400 means the pipeline never started: nothing was read from the
\* file, no temporary file was created, no extraction ran, no call was issued.
C10_RejectedBeforePipeline ==
    \A r \in Requests :
        /\ (pc[r] \notin {"idle", "received"} /\ upload[r].serializer_valid
               /\ ViolationOf(upload[r]) # None) =>
              (response[r].status = 400 /\ response[r].error = ViolationOf(upload[r]))
        /\ response[r].status = 400 =>
              /\ pc[r] = "done"
              /\ fileReads[r] = 0
              /\ created[r] = 0
              /\ strategy[r] = None
              /\ result[r].kind = None
              /\ calls[r] = <<>>

\* C10 witness: an upload named w2.txt, of the expected content type and a
\* size above the ceiling, was answered 400 "File extension must be .pdf".
C10_Witness ==
    \E r \in Requests :
        /\ upload[r].name = TxtName
        /\ upload[r].content_type = "application/pdf"
        /\ upload[r].size > 2 * 1024 * 1024
        /\ response[r].status = 400
        /\ response[r].error = "File extension must be .pdf"


\* the spill of request r failed: _save_file_in_chunks raised and the
\* response was returned without extract_w2_fields having run
SpillFailed(r) == strategy[r] = "spilled" /\ result[r].kind = None /\ Returned(r)

\* C11 as claimed: a temporary-storage I/O failure while spilling the upload
\* is answered as a generic internal failure (500), not as an unprocessable
\* document (422) or a gateway error (502, 504), and the response carries no
\* text of the underlying exception.
C11_SpillFailureIsInternal ==
    \A r \in Requests :
        SpillFailed(r) =>
            /\ response[r].status = 500
            /\ response[r].detail = None


\* C12 as claimed: for every document whose page text was extracted,
\* extract_w2_fields returns all four fields or fails with the missing-fields
\* ValueError, also when a label is followed by a candidate value that does
\* not parse as a decimal; the unreadable-document failure is left to
\* documents whose text extraction failed.
C12_UnreadableOnlyWithoutText ==
    \A r \in Requests :
        Parsed(r) =>
            \/ result[r].kind = "ok" /\ DOMAIN result[r].fields = FieldKeys
            \/ result[r].kind = "ValueError"


\* C13 as claimed: each pattern takes its first match in document order:
\* when several values of the right shape follow a label within the window,
\* the identifier returned is the earliest one after the label, never a later
\* one.
C13_EarliestCandidateReturned ==
    \A r \in Requests :
        (Parsed(r) /\ result[r].kind = "ok") =>
            /\ result[r].fields["ein"] = ExpectedFields(upload[r])["ein"]
            /\ result[r].fields["ssn"] = ExpectedFields(upload[r])["ssn"]


\* what the readers of the upload of request r have read so far: the file
\* sent in Call 2 is the whole document, and the temporary file is a prefix
\* of it starting at offset 0 and the whole of it once the spill has returned
ReadFromStart(r) ==
    /\ \A i \in FileCalls(r) : calls[r][i].lo = 0 /\ calls[r][i].hi = upload[r].size
    /\ \A n \in TempFilesOf(r) :
          /\ fs[n].lo = 0
          /\ fs[n].hi <= upload[r].size
          /\ (temp_file_path[r] = n) => fs[n].hi = upload[r].size

\* C14: every reader of the uploaded document reads it from offset 0 wherever
\* the earlier readers left the stream, so the bytes sent in Call 2 are the
\* complete document under both strategies, and no step changes the document.
C14_ReadersStartAtZero ==
    /\ [](\A r \in Requests : ReadFromStart(r))
    /\ [][upload' = upload]_vars

\* C14 witness: the spill left the stream at the end of a large upload, and
\* the file-upload call was then issued with the whole document.
C14_Witness ==
    \E r \in Requests :
        /\ strategy[r] = "spilled"
        /\ pos[r] = upload[r].size
        /\ upload[r].size > 2 * 1024 * 1024
        /\ Len(calls[r]) = 2
        /\ calls[r][2].operation = "file upload"
        /\ calls[r][2].lo = 0
        /\ calls[r][2].hi = upload[r].size


\* C15: the strategy does not affect extraction: the temporary file the
\* chunked spill hands to extract_w2_fields is byte for byte the upload, and
\* under either strategy the result is the fields, or the failure, that
\* reading the document from the uploaded stream gives.
C15_StrategyIndependentExtraction ==
    /\ [](\A r \in Requests :
            (temp_file_path[r] # NoPath /\ fs[temp_file_path[r]].exists) =>
                fs[temp_file_path[r]] = [exists |-> TRUE, src |-> r, lo |-> 0, hi |-> upload[r].size])
    /\ [][\A r \in Requests :
            result'[r] # result[r] => result'[r] = extract_w2_fields(ReadStream(r))]_vars

\* C15 witness: a large upload ending in a partial chunk was spilled whole
\* and its four fields were extracted from the temporary file.
C15_Witness ==
    \E r \in Requests :
        /\ strategy[r] = "spilled"
        /\ upload[r].size = 2 * 1024 * 1024 + 1
        /\ pc[r] = "extracted"
        /\ fs[temp_file_path[r]].hi = upload[r].size
        /\ result[r].kind = "ok"


\* C16 as claimed: when a read of the source or a write of a chunk fails
\* during the spill, the partially written temporary file is gone when the
\* failure reaches the caller, and the failure that reaches it is the
\* original one.
C16_SpillFailureRemovesFile ==
    \A r \in Requests :
        SpillFailed(r) =>
            /\ TempFilesOf(r) = {}
            /\ response[r].detail = "I/O error"


\* C18 as claimed: the media-type check rejects only a declared content type
\* that differs from application/pdf: an upload with the .pdf extension, a
\* size above zero and no declared content type (no attribute, or None)
\* passes validation.
C18_UndeclaredContentTypePasses ==
    \A r \in Requests :
        (/\ pc[r] \notin {"idle", "received"}
         /\ upload[r].serializer_valid
         /\ EndsWithPdf(upload[r].name)
         /\ upload[r].size > 0
         /\ upload[r].content_type \in {"None", "no attribute"}) =>
            /\ response[r].status # 400
            /\ pc[r] # "done" \/ strategy[r] # None


\* The stage a request is in, from where its handler is and what it
\* returned.  The file-upload call returning and the 200 response being built
\* are one step, so Uploaded and Completed are entered together.
StageOf(p, resp) ==
    CASE p = "idle" -> "None"
      [] p = "received" -> "Received"
      [] p \in {"validated", "spill"} -> "Validated"
      [] p \in {"extract", "extracted"} -> "Ingested"
      [] p = "call1" -> "Extracted"
      [] p = "call2" -> "Reported"
      [] p = "done" -> IF resp.status = 200 THEN "Completed" ELSE "Failed"

StageOrder == <<"Received", "Validated", "Ingested", "Extracted", "Reported", "Completed">>

StageIndex(s) == CHOOSE i \in 1..Len(StageOrder) : StageOrder[i] = s

\* a step takes a request from stage s to stage t
StageStep(s, t) ==
    \/ t = s
    \/ /\ s \notin {"None", "Completed", "Failed"}
       /\ \/ t = "Failed"
          \/ t # "None" /\ StageIndex(t) = StageIndex(s) + 1

\* a failure of a stage of request r: a rejected upload, a failed spill, a
\* failed extraction, a call that failed or whose 200 has no JSON body
StageFailure(r) ==
    \/ pc[r] \notin {"idle", "received"} /\
         (~upload[r].serializer_valid \/ _validate_pdf_file(upload[r]) # None)
    \/ SpillFailed(r)
    \/ result[r].kind \in {"ValueError", "Exception"} /\ pc[r] # "extracted"
    \/ \E i \in 1..Len(outcomes[r]) : Failure(outcomes[r][i]) \/ ~outcomes[r][i].json

Local(r) ==
    <<upload[r], pc[r], pos[r], fileReads[r], temp_file[r], temp_file_path[r], created[r],
      unlinks[r], unlinkFailures[r], result[r], fields[r], calls[r], issued[r], data_id[r],
      file_id[r], response[r], strategy[r], outcomes[r]>>

\* C19: under any interleaving of concurrent requests each request creates,
\* reads and deletes only its own temporary file: while a request spills or
\* extracts, its temporary file exists and holds what that request wrote;
\* every step is the step of one request, changes nothing another request
\* holds, creates, writes or removes only files of that request, and a
\* result it sets is the one its own document gives.
C19_RequestsIsolated ==
    /\ [](\A r \in Requests :
            pc[r] \in {"spill", "extract", "extracted"} /\ strategy[r] = "spilled" =>
                fs[temp_file[r]] = [exists |-> TRUE, src |-> r, lo |-> 0,
                                    hi |-> IF pc[r] = "spill" THEN pos[r] ELSE upload[r].size])
    /\ [][\E r \in Requests :
            /\ \A s \in Requests \ {r} : Local(s)' = Local(s)
            /\ \A n \in TempNames :
                  fs'[n] # fs[n] =>
                      /\ fs[n].exists => fs[n].src = r
                      /\ fs'[n].exists => fs'[n].src = r
            /\ result'[r] # result[r] => result'[r] = extract_w2_fields(ReadStream(r))]_vars

\* C19 witness: one request has ended and its cleanup removed its temporary
\* file while the other, started with it, is still extracting from its own.
C19_Witness ==
    \E r, s \in Requests :
        /\ r # s
        /\ pc[s] = "done"
        /\ created[s] = 1
        /\ unlinks[s] = 1
        /\ pc[r] = "extract"
        /\ fs[temp_file_path[r]].exists
        /\ fs[temp_file_path[r]].src = r


\* a relay call of request r is in flight
InFlight(r) == pc[r] \in {"call1", "call2"}

=============================================================================
